---- MODULE Spec2Model ----
(***************************************************************************)
(* A model of airkit's YouTube modal (src/youtubemodal/index.js) and of    *)
(* its query-string utilities (src/utils/uri.js).                          *)
(*                                                                         *)
(* The modal is a state machine driven by the page's events: init, the     *)
(* module-level play, clicks on marked links, the close button, keydown,   *)
(* history back/forward (popstate), scrolling, and the timers that         *)
(* setVisible schedules.  Every handler is one atomic action (the page is  *)
(* single threaded).  The YouTube iframe API is taken to be loaded when a  *)
(* player is constructed.                                                  *)
(***************************************************************************)
EXTENDS Integers, Sequences, FiniteSets, TLC

(***************************************************************************)
(* Bounds of the model.                                                    *)
(***************************************************************************)
MaxTimers == 3      \* pending setTimeout callbacks
MaxHist == 3        \* entries of the session history
MaxListeners == 2   \* keydown listeners attached to the body
MaxLen == 4         \* characters of a query string / URI
MaxPending == 6     \* pending setTimeout callbacks, history left off

(***************************************************************************)
(* Program constants.                                                      *)
(***************************************************************************)
PlayerDelay == 100          \* setVisible: delay of the play/pause call
DefaultTransition == 300    \* defaultConfig.transitionDuration
Step == PlayerDelay         \* granularity of the clock: divides every delay
KeyEscape == 27             \* _keyToggle: e.keyCode == 27

NULL == "null"              \* JavaScript null / undefined
VideoIds == {"a", "b"}
VideoInputs == VideoIds \cup {""}      \* the empty id is falsy
StartTimes == {0, 5}        \* 0: no start attribute
Transitions == {DefaultTransition}
UNSET == "unset"            \* an optional argument left out
NoStart == 0 - 1            \* playerVars without a 'start' entry
ScrollPositions == {0, 1}
InitMsg == "youtubemodal.init must be run first."

VARIABLES
  singleton,           \* module variable: the controller exists
  config,              \* this.config (defaultConfig before init)
  player,              \* module variable: the YT.Player handle exists
  activeVideoId_,      \* this.activeVideoId_
  lastActiveVideoId_,  \* this.lastActiveVideoId_
  scrollY,             \* this.scrollY
  pageYOffset,         \* window.pageYOffset
  hist,                \* session history: the videoId each entry's state carries
  hIdx,                \* index of the current history entry
  keyListeners,        \* number of _keyToggle closures attached to document.body
  timers,              \* pending setTimeout callbacks, in creation order
  clsEnabled,          \* lightbox element has class --enabled
  clsVisible,          \* lightbox element has class --visible
  playback,            \* last playVideo / pauseVideo delivered to the player
  href,                \* window.location.href assigned by the mobile path
  isMobile,            \* useragent.isIOS() || useragent.isAndroid()
  domNodes,            \* modal containers appended to the parent element
  scriptTags,          \* iframe_api script tags appended
  clickListeners,      \* delegated click listeners on document
  popListeners,        \* popstate listeners on window
  nPlayers,            \* number of YT.Player constructions so far
  playerVideo,         \* the video id the player was last constructed or loaded with
  lastPushed,          \* videoId of the latest history.pushState call
  requested,           \* argument of the latest setVisible call
  calls,               \* player API calls made by the latest handler
  pushed,              \* history.pushState calls made by the latest handler
  callbacks,           \* onModalOpen / onModalClose calls of the latest handler
  thrown,              \* what the latest handler threw
  lastOp,              \* the latest handler and its argument
  str,                 \* uri.js: the input string
  result               \* uri.js: the result of the latest call

modalVars == <<singleton, config, player, activeVideoId_, lastActiveVideoId_,
               scrollY, pageYOffset, hist, hIdx, keyListeners, timers,
               clsEnabled, clsVisible, playback, href, isMobile, domNodes,
               scriptTags, clickListeners, popListeners, nPlayers, playerVideo,
               lastPushed, requested, calls, pushed, callbacks, thrown, lastOp>>
uriVars == <<str, result>>
vars == <<modalVars, uriVars>>

defaultConfig ==
  [useHandlerOnMobile |-> TRUE, history |-> FALSE,
   transitionDuration |-> DefaultTransition]

\* The configurations init is called with.  useHandlerOnMobile keeps its
\* default: play reads it only in conjunction with the user agent, so a mobile
\* page with the flag off takes the path of a desktop page.
Configs ==
  [useHandlerOnMobile : {TRUE}, history : BOOLEAN,
   transitionDuration : Transitions]

(***************************************************************************)
(* The state as one record, so that a handler is a function of the state   *)
(* and the calls it makes compose.                                         *)
(***************************************************************************)
State ==
  [singleton |-> singleton, config |-> config, player |-> player,
   activeVideoId_ |-> activeVideoId_, lastActiveVideoId_ |-> lastActiveVideoId_,
   scrollY |-> scrollY, pageYOffset |-> pageYOffset, hist |-> hist,
   hIdx |-> hIdx, keyListeners |-> keyListeners, timers |-> timers,
   clsEnabled |-> clsEnabled, clsVisible |-> clsVisible,
   playback |-> playback, href |-> href, domNodes |-> domNodes,
   scriptTags |-> scriptTags, clickListeners |-> clickListeners,
   popListeners |-> popListeners, nPlayers |-> nPlayers,
   playerVideo |-> playerVideo, lastPushed |-> lastPushed,
   requested |-> requested, calls |-> <<>>, pushed |-> <<>>,
   callbacks |-> <<>>, thrown |-> NULL]

Commit(s, op) ==
  /\ singleton' = s.singleton
  /\ config' = s.config
  /\ player' = s.player
  /\ activeVideoId_' = s.activeVideoId_
  /\ lastActiveVideoId_' = s.lastActiveVideoId_
  /\ scrollY' = s.scrollY
  /\ pageYOffset' = s.pageYOffset
  /\ hist' = s.hist
  /\ hIdx' = s.hIdx
  /\ keyListeners' = s.keyListeners
  /\ timers' = s.timers
  /\ clsEnabled' = s.clsEnabled
  /\ clsVisible' = s.clsVisible
  /\ playback' = s.playback
  /\ href' = s.href
  /\ domNodes' = s.domNodes
  /\ scriptTags' = s.scriptTags
  /\ clickListeners' = s.clickListeners
  /\ popListeners' = s.popListeners
  /\ nPlayers' = s.nPlayers
  /\ playerVideo' = s.playerVideo
  /\ lastPushed' = s.lastPushed
  /\ requested' = s.requested
  /\ calls' = s.calls
  /\ pushed' = s.pushed
  /\ callbacks' = s.callbacks
  /\ thrown' = s.thrown
  /\ lastOp' = op
  /\ UNCHANGED <<isMobile, uriVars>>

WithinBounds(s) ==
  /\ Len(s.timers) <= MaxTimers
  /\ Len(s.hist) <= MaxHist
  /\ s.keyListeners <= MaxListeners

Truthy(v) == v # NULL /\ v # ""

\* JavaScript's == on the values used here: null and undefined are equal to
\* each other and to nothing else; strings compare by content.
LooseEq(x, y) == x = y

(***************************************************************************)
(* YouTubeModal.prototype.setVisible                                       *)
(***************************************************************************)
Timer(delay, kind, val) == [rem |-> delay, kind |-> kind, val |-> val]

\* document.body.removeEventListener('keydown', _keyToggle) with the closure
\* this very call created: it was never attached, so nothing is removed.
RemoveFreshListener(n) == n

setVisibleSwapped(s, enabled) ==
  LET d == s.config.transitionDuration
      t1 == IF s.player THEN <<Timer(PlayerDelay, "player", enabled)>> ELSE <<>>
      t2 == Timer(IF enabled THEN d ELSE 0, "enabled", enabled)
      t3 == Timer(IF enabled THEN 0 ELSE d, "visible", enabled)
  IN [s EXCEPT
        !.timers = @ \o t1 \o <<t2, t3>>,
        !.keyListeners = IF enabled THEN @ + 1 ELSE RemoveFreshListener(@),
        !.requested = IF enabled THEN "open" ELSE "close"]

setVisibleSlowPause(s, enabled) ==
  LET d == s.config.transitionDuration
      t1 == IF s.player THEN <<Timer(IF enabled THEN PlayerDelay ELSE d, "player", enabled)>> ELSE <<>>
      t2 == Timer(IF enabled THEN 0 ELSE d, "enabled", enabled)
      t3 == Timer(IF enabled THEN d ELSE 0, "visible", enabled)
  IN [s EXCEPT
        !.timers = @ \o t1 \o <<t2, t3>>,
        !.keyListeners = IF enabled THEN @ + 1 ELSE RemoveFreshListener(@),
        !.requested = IF enabled THEN "open" ELSE "close"]

setVisible(s, enabled) ==
  LET d == s.config.transitionDuration
      t1 == IF s.player THEN <<Timer(PlayerDelay, "player", enabled)>> ELSE <<>>
      t2 == Timer(IF enabled THEN 0 ELSE d, "enabled", enabled)
      t3 == Timer(IF enabled THEN d ELSE 0, "visible", enabled)
  IN [s EXCEPT
        !.timers = @ \o t1 \o <<t2, t3>>,
        !.keyListeners = IF enabled THEN @ + 1 ELSE RemoveFreshListener(@),
        !.requested = IF enabled THEN "open" ELSE "close"]

(***************************************************************************)
(* window.history.pushState                                                *)
(***************************************************************************)
pushState(s, videoId) ==
  [s EXCEPT !.hist = Append(SubSeq(@, 1, s.hIdx), videoId),
            !.hIdx = @ + 1,
            !.pushed = Append(@, videoId),
            !.lastPushed = videoId]

(***************************************************************************)
(* YouTubeModal.prototype.setActive_                                       *)
(***************************************************************************)
setActive_Dup(s, active, opt_videoId, opt_updateState) ==
  LET s1 == IF Truthy(opt_videoId)
              THEN [s EXCEPT !.lastActiveVideoId_ = opt_videoId] ELSE s
      s2 == IF active
              THEN [s1 EXCEPT !.callbacks = Append(@, <<"open", s1.lastActiveVideoId_>>),
                              !.scrollY = s1.pageYOffset]
              ELSE [s1 EXCEPT !.callbacks = Append(@, <<"close", s1.lastActiveVideoId_>>),
                              !.pageYOffset = s1.scrollY]
      s3 == setVisible(s2, active)
      videoId == IF Truthy(opt_videoId) THEN opt_videoId ELSE s.activeVideoId_
  IN IF ~s.config.history THEN s3
     ELSE IF opt_updateState = "false" THEN s3
     ELSE IF active THEN pushState(s3, videoId)
     ELSE pushState(s3, NULL)

setActive_(s, active, opt_videoId, opt_updateState) ==
  LET s1 == IF Truthy(opt_videoId)
              THEN [s EXCEPT !.lastActiveVideoId_ = opt_videoId] ELSE s
      s2 == IF active
              THEN [s1 EXCEPT !.callbacks = Append(@, <<"open", s1.lastActiveVideoId_>>),
                              !.scrollY = s1.pageYOffset]
              ELSE [s1 EXCEPT !.callbacks = Append(@, <<"close", s1.lastActiveVideoId_>>),
                              !.pageYOffset = s1.scrollY]
      s3 == setVisible(s2, active)
      videoId == IF Truthy(opt_videoId) THEN opt_videoId ELSE s.activeVideoId_
      stateId == s.hist[s.hIdx]
  IN IF ~s.config.history THEN s3
     ELSE IF opt_updateState = "false" THEN s3
     ELSE IF active
       THEN IF LooseEq(stateId, videoId) THEN s3 ELSE pushState(s3, videoId)
     ELSE pushState(s3, NULL)

(***************************************************************************)
(* YouTubeModal.prototype.play                                             *)
(***************************************************************************)
PlayerCall(op, videoId, start) == [op |-> op, videoId |-> videoId, start |-> start]

YouTubeModal_playNoReuse(s, videoId, opt_updateState, opt_startTime) ==
  IF s.config.useHandlerOnMobile /\ isMobile
    THEN [s EXCEPT !.href = <<videoId, opt_startTime>>]
    ELSE
      LET s1 == setActive_(s, TRUE, videoId, opt_updateState)
      IN IF s1.player /\ LooseEq(videoId, s1.activeVideoId_) THEN s1
         ELSE [s1 EXCEPT
                 !.calls = Append(@, PlayerCall("new", videoId,
                             IF opt_startTime # 0 THEN opt_startTime ELSE NoStart)),
                 !.player = TRUE,
                 !.nPlayers = @ + 1,
                 !.playerVideo = videoId,
                 !.activeVideoId_ = videoId]

YouTubeModal_playStale(s, videoId, opt_updateState, opt_startTime) ==
  IF s.config.useHandlerOnMobile /\ isMobile
    THEN [s EXCEPT !.href = <<videoId, opt_startTime>>]
    ELSE
      LET s1 == setActive_(s, TRUE, videoId, opt_updateState)
      IN IF s1.player /\ LooseEq(videoId, s1.activeVideoId_) THEN s1
         ELSE IF s1.player
           THEN [s1 EXCEPT
                   !.calls = Append(@, PlayerCall("loadVideoById", videoId, 0)),
                   !.playerVideo = videoId]
         ELSE [s1 EXCEPT
                 !.calls = Append(@, PlayerCall("new", videoId,
                             IF opt_startTime # 0 THEN opt_startTime ELSE NoStart)),
                 !.player = TRUE,
                 !.nPlayers = @ + 1,
                 !.playerVideo = videoId,
                 !.activeVideoId_ = videoId]

YouTubeModal_play(s, videoId, opt_updateState, opt_startTime) ==
  IF s.config.useHandlerOnMobile /\ isMobile
    THEN [s EXCEPT !.href = <<videoId, opt_startTime>>]
    ELSE
      LET s1 == setActive_(s, TRUE, videoId, opt_updateState)
      IN IF s1.player /\ LooseEq(videoId, s1.activeVideoId_) THEN s1
         ELSE IF s1.player
           THEN [s1 EXCEPT
                   !.calls = Append(@, PlayerCall("loadVideoById", videoId, 0)),
                   !.playerVideo = videoId,
                   !.activeVideoId_ = videoId]
         ELSE [s1 EXCEPT
                 !.calls = Append(@, PlayerCall("new", videoId,
                             IF opt_startTime # 0 THEN opt_startTime ELSE NoStart)),
                 !.player = TRUE,
                 !.nPlayers = @ + 1,
                 !.playerVideo = videoId,
                 !.activeVideoId_ = videoId]

(***************************************************************************)
(* YouTubeModal.prototype.onHistoryChange_                                 *)
(***************************************************************************)
onHistoryChange_Close(s, state) ==
  IF Truthy(state)
    THEN YouTubeModal_play(s, state, "false", 0)
    ELSE setActive_(s, FALSE, NULL, UNSET)

onHistoryChange_(s, state) ==
  IF Truthy(state)
    THEN YouTubeModal_play(s, state, "false", 0)
    ELSE setVisible(s, FALSE)

(***************************************************************************)
(* The YouTubeModal constructor with initDom_                              *)
(***************************************************************************)
YouTubeModal(s, cfg) ==
  [s EXCEPT !.config = cfg,
            !.domNodes = @ + 1,
            !.popListeners = IF cfg.history THEN @ + 1 ELSE @,
            !.lastActiveVideoId_ = NULL,
            !.scrollY = 0,
            !.clickListeners = @ + 1,
            !.scriptTags = @ + 1,
            !.singleton = TRUE]

(***************************************************************************)
(* Module-level init and play                                              *)
(***************************************************************************)
initAgain(s, opt_config) == YouTubeModal(s, opt_config)

init(s, opt_config) ==
  IF s.singleton THEN s ELSE YouTubeModal(s, opt_config)

playUnguarded(s, videoId) ==
  YouTubeModal_play(s, videoId, UNSET, 0)

play(s, videoId) ==
  IF ~s.singleton
    THEN [s EXCEPT !.thrown = InitMsg]
    ELSE YouTubeModal_play(s, videoId, UNSET, 0)

(***************************************************************************)
(* The delegated click handler of the constructor                          *)
(***************************************************************************)
funcUpdatesState(s, videoId, startTime) ==
  IF Truthy(videoId) THEN YouTubeModal_play(s, videoId, UNSET, startTime) ELSE s

func(s, videoId, startTime) ==
  IF Truthy(videoId) THEN YouTubeModal_play(s, videoId, "false", startTime) ELSE s

(***************************************************************************)
(* Dispatch of a keydown event to the n attached _keyToggle listeners      *)
(***************************************************************************)
RECURSIVE dispatchKeydown(_, _, _)
dispatchKeydown(s, keyCode, n) ==
  IF n = 0 \/ keyCode # KeyEscape THEN s
  ELSE dispatchKeydown(
         [setActive_(s, FALSE, NULL, UNSET) EXCEPT !.keyListeners = @ - 1],
         keyCode, n - 1)

(***************************************************************************)
(* Timer callbacks                                                         *)
(***************************************************************************)
RemoveAt(seq, i) == SubSeq(seq, 1, i - 1) \o SubSeq(seq, i + 1, Len(seq))

\* the callback that runs next: least remaining delay, oldest first
NextTimer(ts) ==
  CHOOSE i \in 1..Len(ts) :
    \A j \in 1..Len(ts) :
      ts[i].rem < ts[j].rem \/ (ts[i].rem = ts[j].rem /\ i <= j)

runTimer(s, i) ==
  LET t == s.timers[i]
      s1 == [s EXCEPT !.timers = RemoveAt(@, i)]
  IN CASE t.kind = "player" ->
            [s1 EXCEPT !.calls = Append(@, PlayerCall(
                           IF t.val THEN "playVideo" ELSE "pauseVideo", NULL, NoStart)),
                       !.playback = IF t.val THEN "play" ELSE "pause"]
       [] t.kind = "enabled" -> [s1 EXCEPT !.clsEnabled = t.val]
       [] t.kind = "visible" -> [s1 EXCEPT !.clsVisible = t.val]

(***************************************************************************)
(* Actions                                                                 *)
(***************************************************************************)
Op(name, arg) == [op |-> name, arg |-> arg]

Do(s, op) == WithinBounds(s) /\ Commit(s, op)

\* y: where the user has scrolled the page to when the event arrives; it is an
\* input of the handlers that read window.pageYOffset (those that activate)
AtScroll(y) == [State EXCEPT !.pageYOffset = y]

Activates(v) ==
  singleton /\ Truthy(v) /\ ~(config.useHandlerOnMobile /\ isMobile)

InitPage(cfg) == Do(init(State, cfg), Op("init", NULL))

PlayApi(v, y) ==
  /\ Activates(v) \/ y = pageYOffset
  /\ Do(play(AtScroll(y), v), Op("play", v))

ClickLink(v, start, y) ==
  /\ clickListeners > 0
  /\ Activates(v) \/ y = pageYOffset
  /\ Do(func(AtScroll(y), v, start), Op("click", v))

ClickClose ==
  /\ singleton
  /\ Do(setActive_(State, FALSE, NULL, UNSET), Op("close", NULL))

KeyDown(keyCode) ==
  /\ keyListeners > 0
  /\ Do(dispatchKeydown(State, keyCode, keyListeners),
        Op("keydown", IF keyCode = KeyEscape THEN "Escape" ELSE "Enter"))

PopState(delta, y) ==
  /\ hIdx + delta \in 1..Len(hist)
  /\ (popListeners > 0 /\ Activates(hist[hIdx + delta])) \/ y = pageYOffset
  /\ LET s == [AtScroll(y) EXCEPT !.hIdx = hIdx + delta]
     IN Do(IF popListeners > 0 THEN onHistoryChange_(s, hist[hIdx + delta]) ELSE s,
           Op(IF popListeners > 0 THEN "popstate" ELSE "navigate",
              hist[hIdx + delta]))

Tick ==
  /\ timers # <<>>
  /\ \A i \in 1..Len(timers) : timers[i].rem >= Step
  /\ Do([State EXCEPT !.timers =
            [i \in 1..Len(timers) |-> [timers[i] EXCEPT !.rem = @ - Step]]],
        Op("tick", NULL))

Fire ==
  /\ timers # <<>>
  /\ timers[NextTimer(timers)].rem = 0
  /\ Do(runTimer(State, NextTimer(timers)), Op("timer", NULL))

Init ==
  /\ singleton = FALSE
  /\ config = defaultConfig
  /\ player = FALSE
  /\ activeVideoId_ = NULL
  /\ lastActiveVideoId_ = NULL
  /\ scrollY = 0
  /\ pageYOffset = 0
  /\ hist = <<NULL>>
  /\ hIdx = 1
  /\ keyListeners = 0
  /\ timers = <<>>
  /\ clsEnabled = FALSE
  /\ clsVisible = FALSE
  /\ playback = "none"
  /\ href = <<>>
  /\ isMobile \in BOOLEAN
  /\ domNodes = 0
  /\ scriptTags = 0
  /\ clickListeners = 0
  /\ popListeners = 0
  /\ nPlayers = 0
  /\ playerVideo = NULL
  /\ lastPushed = "none"
  /\ requested = "none"
  /\ calls = <<>>
  /\ pushed = <<>>
  /\ callbacks = <<>>
  /\ thrown = NULL
  /\ lastOp = Op("load", NULL)
  /\ str = <<>>
  /\ result = [op |-> "none", key |-> <<>>,
               a |-> [threw |-> FALSE, null |-> TRUE, val |-> <<>>],
               b |-> [threw |-> FALSE, null |-> TRUE, val |-> <<>>]]

Next ==
  \/ \E cfg \in Configs : InitPage(cfg)
  \/ \E v \in VideoIds, y \in ScrollPositions : PlayApi(v, y)
  \/ \E v \in VideoInputs, start \in StartTimes, y \in ScrollPositions :
       ClickLink(v, start, y)
  \/ ClickClose
  \/ \E k \in {KeyEscape, 13} : KeyDown(k)
  \/ \E d \in {0 - 1, 1}, y \in ScrollPositions : PopState(d, y)
  \/ Tick
  \/ Fire

Spec == Init /\ [][Next]_vars

(***************************************************************************)
(* The modal of a desktop page initialised without history: open, close    *)
(* and Escape requests and the timers they leave, with room for the timers *)
(* of overlapping requests.  setVisible and the timer callbacks read       *)
(* neither the history setting nor the scroll position.                    *)
(***************************************************************************)
WithinPending(s) ==
  /\ Len(s.timers) <= MaxPending
  /\ s.keyListeners <= MaxListeners

DoPending(s, op) == WithinPending(s) /\ Commit(s, op)

InitDefault == DoPending(init(State, defaultConfig), Op("init", NULL))

Open(v) ==
  /\ singleton
  /\ DoPending(play(State, v), Op("play", v))

Close ==
  /\ singleton
  /\ DoPending(setActive_(State, FALSE, NULL, UNSET), Op("close", NULL))

Escape ==
  /\ keyListeners > 0
  /\ DoPending(dispatchKeydown(State, KeyEscape, keyListeners),
               Op("keydown", "Escape"))

TickPending ==
  /\ timers # <<>>
  /\ \A i \in 1..Len(timers) : timers[i].rem >= Step
  /\ DoPending([State EXCEPT !.timers =
                  [i \in 1..Len(timers) |-> [timers[i] EXCEPT !.rem = @ - Step]]],
               Op("tick", NULL))

FirePending ==
  /\ timers # <<>>
  /\ timers[NextTimer(timers)].rem = 0
  /\ DoPending(runTimer(State, NextTimer(timers)), Op("timer", NULL))

InitTimers == Init /\ ~isMobile

NextTimers ==
  \/ InitDefault
  \/ \E v \in VideoIds : Open(v)
  \/ Close
  \/ Escape
  \/ TickPending
  \/ FirePending

SpecTimers == InitTimers /\ [][NextTimers]_vars

(***************************************************************************)
(* The same page with a user who makes a request only when the timers of   *)
(* the previous one have all fired: no request overlaps another.  Escape   *)
(* is pressed with one listener attached (each listener would make a       *)
(* request of its own).                                                    *)
(***************************************************************************)
OpenSettled(v) == timers = <<>> /\ Open(v)

CloseSettled == timers = <<>> /\ Close

EscapeSettled == timers = <<>> /\ keyListeners = 1 /\ Escape

NextSettled ==
  \/ InitDefault
  \/ \E v \in VideoIds : OpenSettled(v)
  \/ CloseSettled
  \/ EscapeSettled
  \/ TickPending
  \/ FirePending

SpecSettled == InitTimers /\ [][NextSettled]_vars

(***************************************************************************)
(* src/utils/uri.js.  A string is a sequence of one-character strings.     *)
(* The inputs are drawn from Alphabet: a plain letter, the separators of   *)
(* a URI, '%', '+' and the digits 2 and 5, so that the escapes %25 ('%'),  *)
(* %22, %52 and %55 can be typed.  No byte >= 0x80 can be typed, hence no  *)
(* multi-byte UTF-8 sequence.                                              *)
(***************************************************************************)
Alphabet == {"k", "=", "&", "?", "#", "%", "+", "2", "5"}
Keys == {<<"k">>, <<"2">>}                \* keys looked up

\* the printable ASCII characters, code 32 first (the double quote, the
\* backslash and the backtick are written by name)
Ascii ==
  <<" ", "!", "dquote", "#", "$", "%", "&", "'", "(", ")", "*", "+", ",", "-",
    ".", "/", "0", "1", "2", "3", "4", "5", "6", "7", "8", "9", ":", ";",
    "<", "=", ">", "?", "@", "A", "B", "C", "D", "E", "F", "G", "H", "I",
    "J", "K", "L", "M", "N", "O", "P", "Q", "R", "S", "T", "U", "V", "W",
    "X", "Y", "Z", "[", "bslash", "]", "^", "_", "btick", "a", "b", "c", "d", "e",
    "f", "g", "h", "i", "j", "k", "l", "m", "n", "o", "p", "q", "r", "s",
    "t", "u", "v", "w", "x", "y", "z", "{", "|", "}", "~">>
HexDigits ==
  <<"0", "1", "2", "3", "4", "5", "6", "7", "8", "9", "A", "B", "C", "D",
    "E", "F">>
LowerHex == <<"a", "b", "c", "d", "e", "f">>

CharCode(c) == 31 + (CHOOSE i \in 1..Len(Ascii) : Ascii[i] = c)
IsHex(c) ==
  \/ \E i \in 1..Len(HexDigits) : HexDigits[i] = c
  \/ \E i \in 1..Len(LowerHex) : LowerHex[i] = c
HexVal(c) ==
  IF \E i \in 1..Len(HexDigits) : HexDigits[i] = c
    THEN (CHOOSE i \in 1..Len(HexDigits) : HexDigits[i] = c) - 1
    ELSE 9 + (CHOOSE i \in 1..Len(LowerHex) : LowerHex[i] = c)
IsDigit(c) == \E i \in 1..10 : HexDigits[i] = c

\* the characters encodeURIComponent leaves alone
Unreserved(c) ==
  LET n == CharCode(c)
  IN \/ n \in 48..57 \/ n \in 65..90 \/ n \in 97..122
     \/ c \in {"-", "_", ".", "!", "~", "*", "'", "(", ")"}

\* what a call returns: a value, null, or a thrown URIError
Value(v) == [threw |-> FALSE, null |-> FALSE, val |-> v]
JsNull == [threw |-> FALSE, null |-> TRUE, val |-> <<>>]
URIError == [threw |-> TRUE, null |-> FALSE, val |-> <<>>]

IndexOf(s, c) ==
  IF \E i \in 1..Len(s) : s[i] = c
    THEN CHOOSE i \in 1..Len(s) : s[i] = c /\ \A j \in 1..(i - 1) : s[j] # c
    ELSE 0

RECURSIVE Split(_, _)
Split(s, c) ==
  LET i == IndexOf(s, c)
  IN IF i = 0 THEN <<s>>
     ELSE <<SubSeq(s, 1, i - 1)>> \o Split(SubSeq(s, i + 1, Len(s)), c)

RECURSIVE Join(_, _)
Join(parts, sep) ==
  IF parts = <<>> THEN <<>>
  ELSE IF Len(parts) = 1 THEN parts[1]
  ELSE parts[1] \o sep \o Join(Tail(parts), sep)

\* decodeURIComponent: %XX escapes become the character of that code; an
\* escape that is cut short or not hexadecimal, or a byte >= 0x80 that no
\* continuation byte follows, throws URIError
RECURSIVE decodeURIComponent(_)
decodeURIComponent(s) ==
  IF s = <<>> THEN Value(<<>>)
  ELSE IF s[1] # "%"
    THEN LET r == decodeURIComponent(Tail(s))
         IN IF r.threw THEN URIError ELSE Value(<<s[1]>> \o r.val)
  ELSE IF Len(s) < 3 \/ ~IsHex(s[2]) \/ ~IsHex(s[3]) THEN URIError
  ELSE LET code == 16 * HexVal(s[2]) + HexVal(s[3])
           r == decodeURIComponent(SubSeq(s, 4, Len(s)))
       IN IF code \notin 32..126 \/ r.threw THEN URIError
          ELSE Value(<<Ascii[code - 31]>> \o r.val)

RECURSIVE encodeURIComponent(_)
encodeURIComponent(s) ==
  IF s = <<>> THEN <<>>
  ELSE (IF Unreserved(s[1]) THEN <<s[1]>>
        ELSE <<"%", HexDigits[(CharCode(s[1]) \div 16) + 1],
               HexDigits[(CharCode(s[1]) % 16) + 1]>>)
       \o encodeURIComponent(Tail(s))

urlDecode_(s) ==
  decodeURIComponent([i \in 1..Len(s) |-> IF s[i] = "+" THEN " " ELSE s[i]])

urlEncode_Raw(s) == s

urlEncode_(s) == encodeURIComponent(s)

(***************************************************************************)
(* parseQueryString: the callback invocations, in order, and whether the   *)
(* loop was left by a URIError of urlDecode_                               *)
(***************************************************************************)
RECURSIVE parsePairs(_)
parsePairs(pairs) ==
  IF pairs = <<>> THEN [calls |-> <<>>, threw |-> FALSE]
  ELSE LET pair == pairs[1]
           separatorIndex == IndexOf(pair, "=")
       IN IF separatorIndex > 0
            THEN LET key == SubSeq(pair, 1, separatorIndex - 1)
                     value == urlDecode_(SubSeq(pair, separatorIndex + 1, Len(pair)))
                     rest == parsePairs(Tail(pairs))
                 IN IF value.threw THEN [calls |-> <<>>, threw |-> TRUE]
                    ELSE [calls |-> <<<<key, value.val>>>> \o rest.calls,
                          threw |-> rest.threw]
            ELSE LET rest == parsePairs(Tail(pairs))
                 IN [calls |-> <<<<pair, <<>>>>>> \o rest.calls,
                     threw |-> rest.threw]

parseQueryString(query) ==
  IF query = <<>> THEN [calls |-> <<>>, threw |-> FALSE]
  ELSE parsePairs(Split(IF query[1] = "?" THEN Tail(query) ELSE query, "&"))

(***************************************************************************)
(* A JavaScript object with string values: its entries <<key, value>> in   *)
(* property order (array-index keys ascending, then the others in          *)
(* insertion order)                                                        *)
(***************************************************************************)
RECURSIVE NumVal(_)
NumVal(k) == IF k = <<>> THEN 0 ELSE 10 * NumVal(SubSeq(k, 1, Len(k) - 1)) + HexVal(k[Len(k)])

IsArrayIndex(k) ==
  /\ k # <<>>
  /\ Len(k) <= 9
  /\ \A i \in 1..Len(k) : IsDigit(k[i])
  /\ k[1] # "0" \/ Len(k) = 1

HasKey(map, k) == \E i \in 1..Len(map) : map[i][1] = k

MapGet(map, k) ==
  IF HasKey(map, k)
    THEN Value(map[CHOOSE i \in 1..Len(map) : map[i][1] = k][2])
    ELSE JsNull

MapSetKeepFirst(map, k, v) ==
  IF HasKey(map, k) THEN map
  ELSE IF IsArrayIndex(k)
    THEN LET before == {i \in 1..Len(map) :
                          IsArrayIndex(map[i][1]) /\ NumVal(map[i][1]) < NumVal(k)}
             n == Cardinality(before)
         IN SubSeq(map, 1, n) \o <<<<k, v>>>> \o SubSeq(map, n + 1, Len(map))
  ELSE Append(map, <<k, v>>)

MapSet(map, k, v) ==
  IF HasKey(map, k)
    THEN [i \in 1..Len(map) |-> IF map[i][1] = k THEN <<k, v>> ELSE map[i]]
  ELSE IF IsArrayIndex(k)
    THEN LET before == {i \in 1..Len(map) :
                          IsArrayIndex(map[i][1]) /\ NumVal(map[i][1]) < NumVal(k)}
             n == Cardinality(before)
         IN SubSeq(map, 1, n) \o <<<<k, v>>>> \o SubSeq(map, n + 1, Len(map))
  ELSE Append(map, <<k, v>>)

RECURSIVE MapFromCalls(_, _)
MapFromCalls(map, cs) ==
  IF cs = <<>> THEN map
  ELSE MapFromCalls(MapSet(map, cs[1][1], cs[1][2]), Tail(cs))

parseQueryMap(query) ==
  LET r == parseQueryString(query)
  IN IF r.threw THEN URIError ELSE Value(MapFromCalls(<<>>, r.calls))

encodeQueryMap(map) ==
  Join([i \in 1..Len(map) |-> map[i][1] \o <<"=">> \o urlEncode_(map[i][2])],
       <<"&">>)

(***************************************************************************)
(* getParameterValue: the leftmost place in the uri where a '?' or '&' is *)
(* followed by the key and '=', and the run up to the next '&' or '#'.     *)
(* The keys of the model hold no regular-expression metacharacter, so the  *)
(* escaping of '[' and ']' leaves them as they are.                        *)
(***************************************************************************)
MatchesAt(uri, key, i) ==
  /\ i + Len(key) + 1 <= Len(uri)
  /\ uri[i] \in {"?", "&"}
  /\ SubSeq(uri, i + 1, i + Len(key)) = key
  /\ uri[i + Len(key) + 1] = "="

RECURSIVE Capture(_, _)
Capture(uri, i) ==
  IF i > Len(uri) \/ uri[i] \in {"&", "#"} THEN <<>>
  ELSE <<uri[i]>> \o Capture(uri, i + 1)

getParameterValue(key, uri) ==
  IF ~\E i \in 1..Len(uri) : MatchesAt(uri, key, i) THEN JsNull
  ELSE LET i == CHOOSE i \in 1..Len(uri) :
                  /\ MatchesAt(uri, key, i)
                  /\ \A j \in 1..(i - 1) : ~MatchesAt(uri, key, j)
           res == Capture(uri, i + Len(key) + 2)
       IN IF res = <<>> THEN JsNull ELSE urlDecode_(res)

\* the search component of a URL: from the first '?' to the fragment, empty
\* when nothing follows the '?'
Search(uri) ==
  LET h == IndexOf(uri, "#")
      body == IF h = 0 THEN uri ELSE SubSeq(uri, 1, h - 1)
      q == IndexOf(body, "?")
  IN IF q = 0 \/ q = Len(body) THEN <<>> ELSE SubSeq(body, q, Len(body))

(***************************************************************************)
(* Calls of uri.js on a typed string                                       *)
(***************************************************************************)
Result(op, key, a, b) == [op |-> op, key |-> key, a |-> a, b |-> b]
NoResult == Result("none", <<>>, JsNull, JsNull)

Type(c) ==
  /\ Len(str) < MaxLen
  /\ str' = Append(str, c)
  /\ result' = NoResult
  /\ UNCHANGED modalVars

\* decodeMap(q)
CallParseQueryMap ==
  /\ result' = Result("parseQueryMap", <<>>, parseQueryMap(str), JsNull)
  /\ UNCHANGED <<modalVars, str>>

\* decodePairs(q, visitor) with a visitor that records its invocations
CallParseQueryString ==
  /\ LET r == parseQueryString(str)
     IN result' = Result("parseQueryString", <<>>,
                    [threw |-> r.threw, null |-> FALSE, val |-> r.calls], JsNull)
  /\ UNCHANGED <<modalVars, str>>

\* decodeMap(q) and decodeMap(encodeMap(decodeMap(q)))
CallRoundTrip ==
  /\ LET m == parseQueryMap(str)
     IN result' = Result("roundtrip", <<>>, m,
                    IF m.threw THEN URIError
                    ELSE parseQueryMap(encodeQueryMap(m.val)))
  /\ UNCHANGED <<modalVars, str>>

\* getParameterValue(key, uri) and the same key read from the decoded map
CallGetParameterValue(key) ==
  /\ LET m == parseQueryMap(Search(str))
     IN result' = Result("getParameterValue", key, getParameterValue(key, str),
                    IF m.threw THEN URIError ELSE MapGet(m.val, key))
  /\ UNCHANGED <<modalVars, str>>

InitUri == Init /\ ~isMobile

NextUri ==
  \/ \E c \in Alphabet : Type(c)
  \/ CallParseQueryMap
  \/ CallParseQueryString
  \/ CallRoundTrip
  \/ \E key \in Keys : CallGetParameterValue(key)

SpecUri == InitUri /\ [][NextUri]_vars

(***************************************************************************)
(* The URL object of the page: new URL(href, location.href), its search    *)
(* property and toString().  The page is at Origin with path BasePath; an  *)
(* absolute URL starts with the one token Origin.  Of the href a link      *)
(* carries, the path is kept as written (an empty path means the page's    *)
(* own), the query runs from the first '?' to the fragment.                *)
(***************************************************************************)
Origin == "https://h/"
BasePath == <<"p">>

URL(link) ==
  LET abs == link # <<>> /\ link[1] = Origin
      rest == IF abs THEN Tail(link) ELSE link
      h == IndexOf(rest, "#")
      body == IF h = 0 THEN rest ELSE SubSeq(rest, 1, h - 1)
      q == IndexOf(body, "?")
      path == IF q = 0 THEN body ELSE SubSeq(body, 1, q - 1)
  IN [path |-> IF ~abs /\ path = <<>> THEN BasePath ELSE path,
      hasQuery |-> q # 0,
      query |-> IF q = 0 THEN <<>> ELSE SubSeq(body, q + 1, Len(body)),
      hasFragment |-> h # 0,
      fragment |-> IF h = 0 THEN <<>> ELSE SubSeq(rest, h + 1, Len(rest))]

\* url.search
URL_search(url) ==
  IF url.hasQuery /\ url.query # <<>> THEN <<"?">> \o url.query ELSE <<>>

\* the characters the URL parser percent-encodes in the query of an https URL
RECURSIVE QueryEncode(_)
QueryEncode(s) ==
  IF s = <<>> THEN <<>>
  ELSE (IF s[1] \in {" ", "dquote", "#", "<", ">", "'"}
          THEN <<"%", HexDigits[(CharCode(s[1]) \div 16) + 1],
                 HexDigits[(CharCode(s[1]) % 16) + 1]>>
          ELSE <<s[1]>>)
       \o QueryEncode(Tail(s))

URL_appendSearch(url, value) ==
  [url EXCEPT !.hasQuery = TRUE,
              !.query = IF url.hasQuery THEN @ \o <<"&">> \o QueryEncode(value)
                        ELSE QueryEncode(value)]

\* url.search = value
URL_setSearch(url, value) ==
  IF value = <<>> THEN [url EXCEPT !.hasQuery = FALSE, !.query = <<>>]
  ELSE [url EXCEPT !.hasQuery = TRUE,
                   !.query = QueryEncode(IF value[1] = "?" THEN Tail(value) ELSE value)]

\* url.toString()
URL_toString(url) ==
  <<Origin>> \o url.path
    \o (IF url.hasQuery THEN <<"?">> \o url.query ELSE <<>>)
    \o (IF url.hasFragment THEN <<"#">> \o url.fragment ELSE <<>>)

(***************************************************************************)
(* updateParamsFromUrl.  config.params is unset (null) or a list of        *)
(* strings and regular expressions; a regular expression is one without    *)
(* metacharacters, which matches the keys that contain its text.           *)
(***************************************************************************)
NoParams == [set |-> FALSE, list |-> <<>>]
ParamList(list) == [set |-> TRUE, list |-> list]
StringParam(text) == [regExp |-> FALSE, text |-> text]
RegExpParam(text) == [regExp |-> TRUE, text |-> text]

UpdateParamsFromUrlDefaultConfig == [params |-> NoParams]

\* key.match(param) for a RegExp, param === key for a string
ParamMatches(param, key) ==
  IF param.regExp
    THEN \E i \in 0..(Len(key) - Len(param.text)) :
           SubSeq(key, i + 1, i + Len(param.text)) = param.text
    ELSE param.text = key

\* the callback given to parseQueryString, run on the calls in order
RECURSIVE collectVals(_, _, _)
collectVals(vals, cs, params) ==
  IF cs = <<>> THEN vals
  ELSE LET key == cs[1][1]
           value == cs[1][2]
       IN collectVals(
            IF ~params.set THEN MapSet(vals, key, value)
            ELSE IF \E i \in 1..Len(params.list) : ParamMatches(params.list[i], key)
              THEN MapSet(vals, key, value)
            ELSE vals,
            Tail(cs), params)

\* an element the selector matches: its URL attribute and its
\* data-ak-update-params-serialize-into-key attribute
Element(attr, serializeIntoKey) == [attr |-> attr, serializeIntoKey |-> serializeIntoKey]

\* the loop over the elements, from the i-th on
RECURSIVE updateEls(_, _, _)
updateEls(els, i, vals) ==
  IF i > Len(els) THEN [els |-> els, threw |-> FALSE, vals |-> vals]
  ELSE LET attr == els[i].attr
           serializeIntoKey == els[i].serializeIntoKey
       IN IF attr.null \/ attr.val = <<>> \/ attr.val[1] = "#"
            THEN updateEls(els, i + 1, vals)
            ELSE LET url == URL(attr.val)
                     map == parseQueryMap(URL_search(url))
                 IN IF map.threw THEN [els |-> els, threw |-> TRUE, vals |-> vals]
                    ELSE LET newMap ==
                               IF ~serializeIntoKey.null /\ serializeIntoKey.val # <<>>
                                 THEN MapSet(map.val, serializeIntoKey.val,
                                             encodeQueryMap(vals))
                                 ELSE MapFromCalls(map.val, vals)
                             newUrl == URL_setSearch(url, encodeQueryMap(newMap))
                         IN updateEls(
                              [els EXCEPT ![i].attr = Value(URL_toString(newUrl))],
                              i + 1, vals)

\* search: location.search.  The result holds the elements afterwards,
\* whether the call threw, and the local vals.
updateParamsFromUrl(search, c, els) ==
  IF search = <<>> THEN [els |-> els, threw |-> FALSE, vals |-> <<>>]
  ELSE LET r == parseQueryString(search)
       IN IF r.threw THEN [els |-> els, threw |-> TRUE, vals |-> <<>>]
          ELSE updateEls(els, 1, collectVals(<<>>, r.calls, c.params))

(***************************************************************************)
(* Calls of updateParamsFromUrl                                            *)
(***************************************************************************)
LinkAlphabet == Alphabet \ {"+", "5"}
ParamLists ==
  {NoParams, ParamList(<<>>), ParamList(<<StringParam(<<"k">>)>>),
   ParamList(<<StringParam(<<"k">>), RegExpParam(<<"2">>)>>)}
PageSearches == {<<>>, <<"?", "k", "=", "+">>, <<"?", "k", "=", "%">>}
SerializeKeys == {JsNull, Value(<<"k">>)}
PlainLink == <<"l">>

Outcome(r) == [threw |-> r.threw, null |-> FALSE, val |-> r.els]

\* the page's URI is the typed string; one plain link is on the page.  (What
\* a call gives depends on the string alone: it is made on a string just
\* typed.)
CallUpdateParamsFromUrl(params) ==
  /\ result = NoResult
  /\ LET r == updateParamsFromUrl(Search(str), [params |-> params],
                                  <<Element(Value(PlainLink), JsNull)>>)
     IN result' = Result("updateParamsFromUrl", params,
                         [threw |-> r.threw, null |-> FALSE, val |-> r.vals],
                         Outcome(r))
  /\ UNCHANGED <<modalVars, str>>

\* the elements of a page whose first link carries the typed string
Elements(link, serializeIntoKey) ==
  <<Element(Value(link), serializeIntoKey), Element(JsNull, serializeIntoKey),
    Element(Value(PlainLink), serializeIntoKey)>>

\* updateParamsFromUrl run twice on a page whose query string stays the same
CallUpdateTwice(search, serializeIntoKey) ==
  /\ result = NoResult
  /\ LET first == updateParamsFromUrl(search, UpdateParamsFromUrlDefaultConfig,
                                      Elements(str, serializeIntoKey))
         second == updateParamsFromUrl(search, UpdateParamsFromUrlDefaultConfig,
                                       first.els)
     IN result' = Result("updateTwice", <<search, serializeIntoKey>>,
                         Outcome(first), Outcome(second))
  /\ UNCHANGED <<modalVars, str>>

NextParams ==
  \/ \E c \in LinkAlphabet : Type(c)
  \/ \E params \in ParamLists : CallUpdateParamsFromUrl(params)
  \/ \E search \in PageSearches, key \in SerializeKeys : CallUpdateTwice(search, key)

SpecParams == InitUri /\ [][NextParams]_vars

(***************************************************************************)
(* Properties of the modal                                                 *)
(***************************************************************************)
PlayOps == {"play", "click", "popstate"}

\* the latest handler was a play that took the modal (non-mobile) path
PlayedInModal ==
  /\ lastOp.op \in PlayOps
  /\ Truthy(lastOp.arg)
  /\ singleton
  /\ ~(config.useHandlerOnMobile /\ isMobile)

\* C1: on the non-mobile path the player handle is constructed at most once
\* per page lifetime: the handle exists exactly when one construction has
\* happened, every play leaves a handle behind, and no play constructs a
\* second one.
C1_PlayerConstructedOnce ==
  /\ nPlayers <= 1
  /\ player <=> nPlayers = 1
  /\ PlayedInModal => player
  /\ \A i \in 1..Len(calls) : calls[i].op = "new" => (i = 1 /\ PlayedInModal)

\* a play that found the handle and reused it (same id: no player call at all)
C1_Witness ==
  /\ lastOp = Op("play", "a")
  /\ PlayedInModal
  /\ nPlayers = 1
  /\ calls = <<>>

\* C2: a play on the non-mobile path constructs the player when there is
\* none, issues no player call when its id is the active one, and otherwise
\* issues exactly one loadVideoById(id, 0) and makes the id the active one.
C2_LoadOnDifferentId ==
  [][PlayedInModal' =>
       IF ~player
         THEN /\ Len(calls') = 1
              /\ calls'[1].op = "new"
              /\ calls'[1].videoId = lastOp'.arg
              /\ activeVideoId_' = lastOp'.arg
       ELSE IF lastOp'.arg = activeVideoId_
         THEN calls' = <<>> /\ activeVideoId_' = activeVideoId_
       ELSE /\ calls' = <<PlayerCall("loadVideoById", lastOp'.arg, 0)>>
            /\ activeVideoId_' = lastOp'.arg
            /\ nPlayers' = nPlayers]_vars

\* play(a) then play(b): one construction, then one load of b
C2_Witness ==
  /\ lastOp = Op("play", "b")
  /\ calls = <<PlayerCall("loadVideoById", "b", 0)>>
  /\ activeVideoId_ = "b"
  /\ nPlayers = 1

\* C3: no two consecutive history entries carry the same video id: an entry
\* for v is pushed only when the current entry does not carry v.
C3_NoDuplicateVideoEntry ==
  \A i \in 1..(Len(hist) - 1) : Truthy(hist[i]) => hist[i + 1] # hist[i]

\* with history on, after a close (three entries), play(a) while the current
\* entry already carries a: nothing is pushed
C3_Witness ==
  /\ config.history
  /\ lastOp = Op("play", "a")
  /\ PlayedInModal
  /\ hist[hIdx] = "a"
  /\ pushed = <<>>
  /\ Len(hist) = 3

\* C4: at most one Escape listener is attached to the body, and none while
\* the modal is closed.
C4_OneEscapeListener ==
  /\ keyListeners <= 1
  /\ requested # "open" => keyListeners = 0

\* C5: once every timer has fired, both classes reflect the latest request.
C5_ClassesFollowLatestRequest ==
  (timers = <<>> /\ requested # "none") =>
    /\ clsEnabled = (requested = "open")
    /\ clsVisible = (requested = "open")

\* C6: the popstate handler never pushes a history entry; when the popped
\* state carries a video id, that id is played (modal requested open, id
\* recorded) without a push.
C6_PopstateNeverPushes ==
  lastOp.op = "popstate" =>
    /\ pushed = <<>>
    /\ PlayedInModal =>
         /\ requested = "open"
         /\ lastActiveVideoId_ = lastOp.arg
         /\ activeVideoId_ = lastOp.arg
         /\ callbacks = <<<<"open", lastOp.arg>>>>

\* a popstate whose state carries a: played, nothing pushed
C6_Witness ==
  /\ lastOp = Op("popstate", "a")
  /\ PlayedInModal
  /\ requested = "open"
  /\ pushed = <<>>

\* C7: an init call made while the singleton exists changes nothing: no
\* second controller, the same configuration, no DOM node, listener, script
\* tag, timer or history entry.
C7_InitIdempotent ==
  [][(lastOp'.op = "init" /\ singleton) =>
       /\ UNCHANGED <<singleton, config, player, activeVideoId_,
                      lastActiveVideoId_, scrollY, pageYOffset, hist, hIdx,
                      keyListeners, timers, clsEnabled, clsVisible, playback,
                      href, domNodes, scriptTags, clickListeners,
                      popListeners, nPlayers, requested>>
       /\ calls' = <<>> /\ pushed' = <<>> /\ callbacks' = <<>>
       /\ thrown' = NULL]_vars

\* an init issued after a play, hence a second one, with history entries made
C7_Witness ==
  /\ lastOp.op = "init"
  /\ player
  /\ domNodes = 1
  /\ Len(hist) > 1

\* C8: the module-level play before any init throws and changes nothing: no
\* player, no history entry, no visibility change, no timer.
C8_PlayBeforeInitThrows ==
  /\ (lastOp.op = "play" /\ ~singleton) =>
       /\ thrown = InitMsg
       /\ ~player /\ nPlayers = 0 /\ calls = <<>>
       /\ pushed = <<>> /\ hist = <<NULL>> /\ hIdx = 1
       /\ timers = <<>> /\ requested = "none" /\ keyListeners = 0
       /\ activeVideoId_ = NULL /\ lastActiveVideoId_ = NULL
       /\ callbacks = <<>> /\ href = <<>>
  /\ thrown # NULL => (lastOp.op = "play" /\ ~singleton)

C8_Witness ==
  /\ lastOp.op = "play"
  /\ ~singleton
  /\ thrown = InitMsg

\* C13: with history on, no two consecutive pushState calls of the controller
\* carry the same videoId value, be it an id or null.
C13_NoEqualConsecutivePushes ==
  [][\A i \in 1..Len(pushed') :
       pushed'[i] # (IF i = 1 THEN lastPushed ELSE pushed'[i - 1])]_vars

\* C15: a popped state without a video id closes the modal as close() does:
\* the modal is hidden, the close callback gets the last active id and the
\* scroll position is restored.
C15_PopstateCloses ==
  (lastOp.op = "popstate" /\ ~Truthy(lastOp.arg)) =>
    /\ requested = "close"
    /\ callbacks = <<<<"close", lastActiveVideoId_>>>>
    /\ pageYOffset = scrollY

\* C19: while a player exists, activeVideoId_ is the id the player was last
\* constructed or loaded with, and when a play(v) that took the modal path
\* has returned, lastActiveVideoId_ and activeVideoId_ are both v.
C19_ActiveIdIsPlayersId ==
  /\ player => activeVideoId_ = playerVideo
  /\ PlayedInModal => (lastActiveVideoId_ = lastOp.arg /\ activeVideoId_ = lastOp.arg)

\* a play that loaded another video into the existing player
C19_Witness ==
  /\ PlayedInModal
  /\ \E i \in 1..Len(calls) : calls[i].op = "loadVideoById"
  /\ playerVideo = lastOp.arg
  /\ activeVideoId_ = lastOp.arg

\* C20: a play started by a click pushes no history entry, only the module's
\* play and a close push one, and with history off nothing pushes.
C20_OnlyPlayAndClosePush ==
  /\ lastOp.op = "click" => pushed = <<>>
  /\ pushed # <<>> => (config.history /\ lastOp.op \in {"play", "close", "keydown"})
  /\ ~config.history => (hist = <<NULL>> /\ lastPushed = "none")

\* a click that opened a video the current history entry does not carry,
\* with history on
C20_Witness ==
  /\ lastOp.op = "click"
  /\ PlayedInModal
  /\ config.history
  /\ hist[hIdx] # lastOp.arg
  /\ pushed = <<>>

Pending(kind) == {i \in 1..Len(timers) : timers[i].kind = kind}

\* the one pending timer of a kind
The(kind) == timers[CHOOSE i \in Pending(kind) : TRUE]

\* C16: a single open that no other request overlaps adds the class 'enabled'
\* first and the class 'visible' only a transition duration later; a single
\* close removes 'visible' first and 'enabled' only a transition duration
\* later (checked where no request overlaps another).
C16_ClassOrder ==
  /\ requested = "open" =>
       /\ Pending("enabled") # {} =>
            /\ The("enabled").rem = 0
            /\ Pending("visible") # {}
            /\ The("visible").rem = config.transitionDuration
       /\ Pending("enabled") = {} => clsEnabled
       /\ Pending("visible") = {} => (Pending("enabled") = {} /\ clsVisible)
       /\ \A k \in {"enabled", "visible"} : \A i \in Pending(k) : timers[i].val
  /\ requested = "close" =>
       /\ Pending("visible") # {} =>
            /\ The("visible").rem = 0
            /\ Pending("enabled") # {}
            /\ The("enabled").rem = config.transitionDuration
       /\ Pending("visible") = {} => ~clsVisible
       /\ Pending("enabled") = {} => (Pending("visible") = {} /\ ~clsEnabled)
       /\ \A k \in {"enabled", "visible"} : \A i \in Pending(k) : ~timers[i].val

\* an open on its own, half way: 'enabled' is set and 'visible' is still to
\* come after the rest of the transition duration
C16_Witness ==
  /\ requested = "open"
  /\ Pending("enabled") = {}
  /\ Pending("visible") # {}
  /\ The("visible").rem = Step
  /\ clsEnabled
  /\ ~clsVisible

\* C17: once the player exists, when every pending timer has fired the last
\* playVideo / pauseVideo delivered to the player is that of the latest
\* request (the open that constructs the player is made while there is no
\* player yet: until the next request nothing has been delivered).
C17_LastCommandMatchesRequest ==
  (timers = <<>> /\ player /\ (playback # "none" \/ requested = "close")) =>
    playback = (IF requested = "open" THEN "play" ELSE "pause")

\* several opens and the closes between them, all served
C17_Witness ==
  /\ timers = <<>>
  /\ keyListeners = MaxListeners
  /\ requested = "open"
  /\ playback = "play"
  /\ lastOp.op = "timer"

(***************************************************************************)
(* Properties of uri.js                                                    *)
(***************************************************************************)
KeysPlain(map) ==
  \A i \in 1..Len(map) : \A j \in 1..Len(map[i][1]) : Unreserved(map[i][1][j])

\* C9: for a query string whose keys need no percent-encoding, decoding the
\* encoding of the decoded map gives the decoded map again, entry for entry
\* (a query string whose decoding throws makes the round trip throw too).
C9_RoundTripStable ==
  (result.op = "roundtrip" /\ KeysPlain(result.a.val)) => result.b = result.a

\* a round trip of a map that holds a value the encoder has to escape
C9_Witness ==
  /\ result.op = "roundtrip"
  /\ ~result.a.threw
  /\ KeysPlain(result.a.val)
  /\ result.b = result.a
  /\ \E i \in 1..Len(result.a.val) :
       \E j \in 1..Len(result.a.val[i][2]) : ~Unreserved(result.a.val[i][2][j])

\* C10: getParameterValue(key, uri) is what reading key from the decoded
\* query string of the uri gives, null exactly when the key is absent.
C10_LookupEqualsMap ==
  result.op = "getParameterValue" => result.a = result.b

(***************************************************************************)
(* The scan of a query string told by positions: the k-th pair lies        *)
(* between the (k-1)-th and the k-th '&' of the string without its one     *)
(* leading '?'                                                             *)
(***************************************************************************)
RefStripped(q) == IF q # <<>> /\ q[1] = "?" THEN Tail(q) ELSE q

RefAmps(q) == {i \in 1..Len(RefStripped(q)) : RefStripped(q)[i] = "&"}

RefCount(q) == IF q = <<>> THEN 0 ELSE Cardinality(RefAmps(q)) + 1

RefAmp(q, k) ==
  IF k = 0 THEN 0
  ELSE IF k > Cardinality(RefAmps(q)) THEN Len(RefStripped(q)) + 1
  ELSE CHOOSE p \in RefAmps(q) : Cardinality({x \in RefAmps(q) : x < p}) = k - 1

RefPair(q, k) == SubSeq(RefStripped(q), RefAmp(q, k - 1) + 1, RefAmp(q, k) - 1)

RefKeyLen(pair) ==
  CHOOSE n \in 0..Len(pair) :
    /\ \A j \in 1..n : pair[j] # "="
    /\ n = Len(pair) \/ pair[n + 1] = "="

RefKey(q, k) == SubSeq(RefPair(q, k), 1, RefKeyLen(RefPair(q, k)))

RefValue(q, k) ==
  urlDecode_(SubSeq(RefPair(q, k), RefKeyLen(RefPair(q, k)) + 2, Len(RefPair(q, k))))

\* the pairs the scan reaches: all of them, or those before the first value
\* whose decoding throws
RefReached(q) ==
  IF \E k \in 1..RefCount(q) : RefValue(q, k).threw
    THEN (CHOOSE k \in 1..RefCount(q) :
            /\ RefValue(q, k).threw
            /\ \A j \in 1..(k - 1) : ~RefValue(q, j).threw) - 1
    ELSE RefCount(q)

RefThrows(q) == RefReached(q) < RefCount(q)

\* C12: decodeMap(q) is what a scan of the '&'-separated pairs of q without
\* its one leading '?' gives: a pair is split at its first '=', a pair
\* without '=' has the empty value, the last pair of a key gives the key's
\* value, and the visitor is called once per pair, in order (never for the
\* empty string).
C12_MapEqualsScan ==
  /\ result.op = "parseQueryString" =>
       /\ result.a.threw = RefThrows(str)
       /\ result.a.val = [k \in 1..RefReached(str) |->
                            <<RefKey(str, k), RefValue(str, k).val>>]
  /\ result.op = "parseQueryMap" =>
       /\ result.a.threw = RefThrows(str)
       /\ ~result.a.threw =>
            /\ \A i, j \in 1..Len(result.a.val) :
                 result.a.val[i][1] = result.a.val[j][1] => i = j
            /\ \A i \in 1..Len(result.a.val) :
                 \E k \in 1..RefCount(str) :
                   /\ RefKey(str, k) = result.a.val[i][1]
                   /\ RefValue(str, k).val = result.a.val[i][2]
                   /\ \A l \in (k + 1)..RefCount(str) :
                        RefKey(str, l) # RefKey(str, k)
            /\ \A k \in 1..RefCount(str) : HasKey(result.a.val, RefKey(str, k))

\* a decoded query string in which a key comes twice, with two values
C12_Witness ==
  /\ result.op = "parseQueryMap"
  /\ ~result.a.threw
  /\ \E k, l \in 1..RefCount(str) :
       /\ k < l
       /\ RefKey(str, k) = RefKey(str, l)
       /\ RefValue(str, k).val # RefValue(str, l).val
       /\ MapGet(result.a.val, RefKey(str, k)) = Value(RefValue(str, l).val)

\* C14: decoding a query string never throws, whatever percent sequences
\* its values hold.
C14_DecodeNeverThrows ==
  result.op \in {"parseQueryMap", "parseQueryString"} => ~result.a.threw

(***************************************************************************)
(* Properties of updateParamsFromUrl                                       *)
(***************************************************************************)
Listed(params, key) ==
  \/ ~params.set
  \/ params.list = <<>>
  \/ \E i \in 1..Len(params.list) : ParamMatches(params.list[i], key)

Entries(map) == {map[i] : i \in 1..Len(map)}

\* C11: the mapping written onto the links holds every parameter of the page
\* when params is unset or an empty list, and otherwise exactly the
\* parameters whose key is a listed string or matches a listed pattern; no
\* unlisted parameter is written onto a link.
C11_FilteredMapping ==
  (result.op = "updateParamsFromUrl" /\ ~result.a.threw) =>
    LET page == parseQueryMap(Search(str)).val
        link == result.b.val[1].attr.val
        written == parseQueryMap(URL_search(URL(link))).val
    IN /\ Entries(result.a.val) = {e \in Entries(page) : Listed(result.key, e[1])}
       /\ \A e \in Entries(written) : Listed(result.key, e[1])

\* the elements updateParamsFromUrl passes over
Skipped(el) == el.attr.null \/ el.attr.val = <<>> \/ el.attr.val[1] = "#"

Untouched(before, after) ==
  \A i \in 1..Len(before) : Skipped(before[i]) => after[i] = before[i]

\* keys that neither encodeURIComponent nor the URL parser would change
StableKeys(map) ==
  \A i \in 1..Len(map) : \A j \in 1..Len(map[i][1]) :
    Unreserved(map[i][1][j]) /\ map[i][1][j] # "'"

\* the keys of the page, of the links and the serialization key are stable
StableKeysOnPage ==
  LET search == result.key[1]
      serializeIntoKey == result.key[2]
      els == Elements(str, serializeIntoKey)
  IN /\ StableKeys(parseQueryMap(search).val)
     /\ StableKeys(<<<<serializeIntoKey.val, <<>>>>>>)
     /\ \A i \in 1..Len(els) :
          ~Skipped(els[i]) =>
            StableKeys(parseQueryMap(URL_search(URL(els[i].attr.val))).val)

\* C18 as stated: a second run with the same page query leaves every
\* element's attribute as the first run left it, in merge mode and in
\* serialization mode; elements whose attribute is missing or starts with '#'
\* are never modified, and with an empty page query nothing is.
C18_SecondRunChangesNothing ==
  result.op = "updateTwice" =>
    LET before == Elements(str, result.key[2])
    IN /\ result.b = result.a
       /\ Untouched(before, result.a.val) /\ Untouched(before, result.b.val)
       /\ result.key[1] = <<>> => (result.a.val = before /\ result.b.val = before)

\* C18, amended: the same, the second run being required to change nothing
\* only when no key of the page query, of a link's own query or of the
\* serialization attribute holds a character that percent-encoding or the URL
\* parser would change.
C18_SecondRunChangesNothingStableKeys ==
  result.op = "updateTwice" =>
    LET before == Elements(str, result.key[2])
    IN /\ StableKeysOnPage => result.b = result.a
       /\ Untouched(before, result.a.val) /\ Untouched(before, result.b.val)
       /\ result.key[1] = <<>> => (result.a.val = before /\ result.b.val = before)

\* two runs in serialization mode over a link with a query of its own, which
\* the first run rewrote
C18_Witness ==
  /\ result.op = "updateTwice"
  /\ StableKeysOnPage
  /\ ~result.a.threw
  /\ ~result.key[2].null
  /\ URL(str).hasQuery /\ URL(str).query # <<>>
  /\ result.a.val[1].attr # Value(str)
  /\ result.b = result.a
====
